---- MODULE Spec2Model ----
(***************************************************************************)
(* Model of the AT response parsers of GSM_AT_Lib, src/src/gsm/gsm_parser.c *)
(*                                                                         *)
(* Text is a sequence of one-character strings.  A C string is the text up *)
(* to its terminator; NUL stands for the terminating 0 byte.  A cursor is a *)
(* 1-based position into a line; position Len(line)+1 holds the terminator. *)
(***************************************************************************)
EXTENDS Integers, Sequences, FiniteSets, TLC

VARIABLES
    u,          \* static union u of gsmi_parse_cops_scan (bo, ccd, tn, tp, ch_prev)
    cmds,       \* the command objects (gsm_msg_t) owned by the scheduler, by id
    cur,        \* gsm.msg: id of the active command, 0 for NULL
    rx,         \* per command: scripted bytes the transport still has to deliver
    fed,        \* per command: the calls made for it so far, RST for a reset (history)
    scripted,   \* per command: the scan's bytes come from a script
    tok,        \* a token scanner's call: its arguments
    res,        \* what that call returned and left behind
    gsm,        \* the global gsm: the device state the parsers write
    requests,   \* follow-up requests queued with the scheduler
    last,       \* the last statement parser called and what it returned
    events,     \* events sent to the callback layer (gsmi_send_cb)
    fault       \* a parser went through an invalid pointer and the access trapped

scanVars == <<u, cmds, cur, rx, fed, scripted>>
tokVars == <<tok, res>>

vars == <<u, cmds, cur, rx, fed, scripted, tok, res, gsm, requests, last, events, fault>>

NUL == "NUL"
RST == "RST"
CR == "CR"
LF == "LF"
QUOTE == "\""

-----------------------------------------------------------------------------
(* Characters *)

AsciiTable ==
    << " ", "!", "\"", "#", "$", "%", "&", "'", "(", ")", "*", "+", ",", "-", ".", "/",
       "0", "1", "2", "3", "4", "5", "6", "7", "8", "9", ":", ";", "<", "=", ">", "?",
       "@", "A", "B", "C", "D", "E", "F", "G", "H", "I", "J", "K", "L", "M", "N", "O",
       "P", "Q", "R", "S", "T", "U", "V", "W", "X", "Y", "Z", "[", "BACKSLASH", "]", "^", "_",
       "BACKTICK", "a", "b", "c", "d", "e", "f", "g", "h", "i", "j", "k", "l", "m", "n", "o",
       "p", "q", "r", "s", "t", "u", "v", "w", "x", "y", "z", "{", "|", "}", "~" >>

AsciiCode ==
    [c \in { AsciiTable[i] : i \in 1..Len(AsciiTable) } |->
        31 + (CHOOSE i \in 1..Len(AsciiTable) : AsciiTable[i] = c)]

\* The value of a character as the C code uses it in arithmetic (ch - '0').
CharCode(c) == IF c = NUL THEN 0 ELSE AsciiCode[c]

Zero == CharCode("0")

-----------------------------------------------------------------------------
(* Token scanners *)

\* *p for the cursor p of line s; the line's terminator follows its text.
At(s, p) == IF p \in 1..Len(s) THEN s[p] ELSE NUL

\* if (*p == c) p++
Skip(s, p, c) == IF At(s, p) = c THEN p + 1 ELSE p

Digits == { "0", "1", "2", "3", "4", "5", "6", "7", "8", "9" }

\* GSM_CHARISNUM and GSM_CHARTONUM
CharIsNum(c) == c \in Digits
CharToNum(c) == CharCode(c) - Zero

\* int32_t: the type of val and of the value returned.
INT32_MAX == 2147483647
INT32_MIN == (0 - INT32_MAX) - 1

HalfWord == 65536

\* val * 10 + d does not fit int32_t (val >= 0; tested without forming it).
Overflows10(val, d) == val > (INT32_MAX - d) \div 10

\* val * 10 + d reduced to 32 bits, two's complement, formed in 16-bit halves
\* so that no intermediate value leaves the 32-bit range: what wrapping
\* arithmetic leaves in val once the signed multiplication has overflowed.
Wrap10(val, d) ==
    LET lo == val % HalfWord
        hi == (val \div HalfWord) % HalfWord
        l  == lo * 10 + d
        h  == (hi * 10 + (l \div HalfWord)) % HalfWord
    IN  (IF h >= HalfWord \div 2 THEN h - HalfWord ELSE h) * HalfWord + (l % HalfWord)

RECURSIVE NumLoop(_, _, _, _)
\* while (GSM_CHARISNUM(*p)) { val = val * 10 + GSM_CHARTONUM(*p); p++; }
\* ovf: the signed arithmetic overflowed (undefined behaviour); val is then
\* what wrapping arithmetic leaves.
NumLoop(s, p, val, ovf) ==
    IF CharIsNum(At(s, p))
        THEN LET d == CharToNum(At(s, p))
                 o == ovf \/ val < 0 \/ Overflows10(val, d)
             IN  NumLoop(s, p + 1, IF o THEN Wrap10(val, d) ELSE val * 10 + d, o)
        ELSE [val |-> val, p |-> p, ovf |-> ovf]

\* gsmi_parse_number(&str) with str at position p0 of s: the value returned,
\* the new cursor, and whether the arithmetic overflowed on the way.
ParseNumber(s, p0) ==
    LET p1 == Skip(s, p0, QUOTE)
        p2 == Skip(s, p1, ",")
        p3 == Skip(s, p2, QUOTE)
        p4 == Skip(s, p3, "/")
        p5 == Skip(s, p4, ":")
        p6 == Skip(s, p5, "+")
        minus == At(s, p6) = "-"
        p7 == Skip(s, p6, "-")
        r == NumLoop(s, p7, 0, FALSE)
    IN  [val |-> IF minus /\ r.val # INT32_MIN THEN 0 - r.val ELSE r.val,
         p |-> Skip(s, r.p, ","),
         ovf |-> r.ovf \/ (minus /\ r.val = INT32_MIN)]

HexDigits == Digits \cup { "a", "b", "c", "d", "e", "f", "A", "B", "C", "D", "E", "F" }

\* GSM_CHARISHEXNUM and GSM_CHARHEXTONUM
CharIsHexNum(c) == c \in HexDigits
CharHexToNum(c) ==
    IF c \in Digits THEN CharCode(c) - Zero
    ELSE IF CharCode(c) >= CharCode("a") THEN CharCode(c) - CharCode("a") + 10
    ELSE CharCode(c) - CharCode("A") + 10

RECURSIVE HexLoop(_, _, _)
\* while (GSM_CHARISHEXNUM(*p)) { val = val * 16 + GSM_CHARHEXTONUM(*p); p++; }
\* (the lines of the model carry at most two hex digits per number, so the
\* 32-bit val holds the integer itself).
HexLoop(s, p, val) ==
    IF CharIsHexNum(At(s, p))
        THEN HexLoop(s, p + 1, val * 16 + CharHexToNum(At(s, p)))
        ELSE [val |-> val, p |-> p]

\* gsmi_parse_hexnumber(&str) with str at position p0 of s.
ParseHexNumber(s, p0) ==
    LET p1 == Skip(s, p0, QUOTE)
        p2 == Skip(s, p1, ",")
        p3 == Skip(s, p2, QUOTE)
        r == HexLoop(s, p3, 0)
    IN  [val |-> r.val, p |-> Skip(s, r.p, ",")]

\* A cursor behind the terminator of the memory s it reads: the terminator
\* of s is its last readable byte.
OutOfMemory(s, p) == p > Len(s) + 1

\* The octets are stored as uint8_t.
Octet == 256

\* gsmi_parse_ip(&src, ip) with src at position p0 of s: each number is
\* followed by p++ whatever the character there (lines 183-185).  read: the
\* last position the call reads.
ParseIp(s, p0) ==
    LET q == Skip(s, p0, QUOTE)
        r1 == ParseNumber(s, q)
        r2 == ParseNumber(s, r1.p + 1)
        r3 == ParseNumber(s, r2.p + 1)
        r4 == ParseNumber(s, r3.p + 1)
    IN  [ret |-> 1, p |-> Skip(s, r4.p, QUOTE), read |-> r4.p,
         addr |-> << r1.val % Octet, r2.val % Octet, r3.val % Octet, r4.val % Octet >>]

\* gsmi_parse_mac(&src, mac) with src at position p0 of s (lines 208-213).
ParseMac(s, p0) ==
    LET q == Skip(s, p0, QUOTE)
        r1 == ParseHexNumber(s, q)
        r2 == ParseHexNumber(s, r1.p + 1)
        r3 == ParseHexNumber(s, r2.p + 1)
        r4 == ParseHexNumber(s, r3.p + 1)
        r5 == ParseHexNumber(s, r4.p + 1)
        r6 == ParseHexNumber(s, r5.p + 1)
        p7 == Skip(s, r6.p, QUOTE)
    IN  [ret |-> 1, p |-> Skip(s, p7, ","), read |-> p7,
         addr |-> << r1.val % Octet, r2.val % Octet, r3.val % Octet,
                     r4.val % Octet, r5.val % Octet, r6.val % Octet >>]

RECURSIVE DecimalOf(_)
\* The decimal text of a non-negative int32 value, as the modem writes it:
\* its digits without leading zeros.
DecimalOf(v) ==
    IF v < 10 THEN << AsciiTable[17 + v] >>
    ELSE Append(DecimalOf(v \div 10), AsciiTable[17 + (v % 10)])

\* Mutant of StrClose: the comma behind the closing quote is consumed too.
StrClose_SkipComma(p) == p + 2

\* The closing quote was found at p: p++; break; (lines 139-140).
StrClose(p) == p + 1

\* The test on the closing quote, line 138.
StrAtClose(s, p) == At(s, p) = QUOTE /\ At(s, p + 1) \in {",", CR, LF}

RECURSIVE StrLoop(_, _, _, _, _, _, _)
\* while (*p) { ... } of gsmi_parse_string: dst holds the i characters copied
\* so far, cap is dst_len after its decrement.
StrLoop(s, p, dstSet, cap, trim, i, dst) ==
    IF At(s, p) = NUL THEN [p |-> p, i |-> i, dst |-> dst]
    ELSE IF StrAtClose(s, p) THEN [p |-> StrClose(p), i |-> i, dst |-> dst]
    ELSE IF dstSet /\ i < cap
        THEN StrLoop(s, p + 1, dstSet, cap, trim, i + 1, Append(dst, At(s, p)))
    ELSE IF dstSet /\ ~trim THEN [p |-> p, i |-> i, dst |-> dst]
    ELSE StrLoop(s, p + 1, dstSet, cap, trim, i, dst)

\* gsmi_parse_string(&src, dst, dst_len, trim) with src at position p0 of s
\* (dstSet: dst is not NULL): the return value, the new cursor, the C string
\* left in dst and the number of bytes stored through dst, terminator included.
ParseString(s, p0, dstSet, dst_len, trim) ==
    LET p1 == Skip(s, p0, ",")
        p2 == Skip(s, p1, QUOTE)
        cap == IF dst_len # 0 THEN dst_len - 1 ELSE dst_len
        r == StrLoop(s, p2, dstSet, cap, trim, 0, <<>>)
    IN  [ret |-> 1, p |-> r.p, dst |-> r.dst,
         written |-> IF dstSet THEN r.i + 1 ELSE 0]

NoTok == [fn |-> "none"]
NoRes == [done |-> FALSE]

TokIdle == tok = NoTok /\ res = NoRes

MaxStr == 5             \* longest line given to a token scanner
MaxDst == 4             \* largest destination capacity dst_len

TokAlphabet == { QUOTE, ",", "a", "b", CR }

RECURSIVE Strings(_, _)
\* The texts over alphabet of length at most n.
Strings(alphabet, n) ==
    IF n = 0 THEN { <<>> }
    ELSE LET shorter == Strings(alphabet, n - 1)
         IN  shorter \cup { Append(t, c) : t \in shorter, c \in alphabet }

StringExample == << QUOTE, "a", "b", "c", QUOTE, ",", "n", "e", "x", "t" >>

TokArgs ==
    /\ \E s \in Strings(TokAlphabet, MaxStr) \cup { StringExample },
          dstSet \in BOOLEAN, dst_len \in 0..MaxDst, trim \in BOOLEAN :
           tok = [fn |-> "string", src |-> s, dstSet |-> dstSet,
                  dst_len |-> dst_len, trim |-> trim]
    /\ res = NoRes

\* The caller runs gsmi_parse_string on the line.
CallParseString ==
    /\ tok.fn = "string" /\ ~res.done
    /\ LET r == ParseString(tok.src, 1, tok.dstSet, tok.dst_len, tok.trim)
       IN  res' = [done |-> TRUE, ret |-> r.ret, p |-> r.p, dst |-> r.dst,
                   written |-> r.written]
    /\ UNCHANGED tok

MaxDigits == 3           \* longest digit string of the short numbers

NumDigits == { "0", "1", "9" }

\* Digit strings around the ends of the 32-bit ranges.
LongNumbers ==
    { << "2", "1", "4", "7", "4", "8", "3", "6", "4", "7" >>,
      << "2", "1", "4", "7", "4", "8", "3", "6", "4", "8" >>,
      << "4", "2", "9", "4", "9", "6", "7", "2", "9", "6" >>,
      << "9", "9", "9", "9", "9", "9", "9", "9", "9", "9" >>,
      << "1", "2", "3", "4", "5", "6", "7", "8", "9", "0", "1" >> }

\* What follows the digits on the line.
NumFollowers == { <<>>, << "," >>, << "x" >>, << ",", "5" >>, << CR >> }

\* Numbers behind a leading marker.
MarkedNumbers ==
    { << "-", "1", "2", "3", ",", "r", "e", "s", "t" >>,
      << "-", "2", "1", "4", "7", "4", "8", "3", "6", "4", "8" >>,
      << ",", QUOTE, "4", "2", QUOTE >>,
      << "/", "0", "7" >>, << ":", "5", "9" >>, << "+", "0", "8", QUOTE >> }

NumberArgs ==
    /\ \/ \E d \in (Strings(NumDigits, MaxDigits) \ { <<>> }) \cup LongNumbers,
              f \in NumFollowers :
               tok = [fn |-> "number", src |-> d \o f]
       \/ \E s \in MarkedNumbers : tok = [fn |-> "number", src |-> s]
    /\ res = NoRes

\* The caller runs gsmi_parse_number on the line.  When the signed
\* arithmetic overflows the behaviour is undefined: the build either wraps
\* (val is the wrapped value) or traps on the overflow and returns nothing.
CallParseNumber ==
    /\ tok.fn = "number" /\ ~res.done
    /\ LET r == ParseNumber(tok.src, 1)
       IN  \/ res' = [done |-> TRUE, trap |-> FALSE, val |-> r.val, p |-> r.p,
                      ovf |-> r.ovf]
           \/ /\ r.ovf
              /\ res' = [done |-> TRUE, trap |-> TRUE, val |-> 0, p |-> 1,
                         ovf |-> TRUE]
    /\ UNCHANGED tok

MaxBehind == 8          \* longest run of zero bytes behind a line's terminator

\* What the memory holds behind the terminator of the line: nothing the
\* program may read (<<>>), zero bytes, or the remains of earlier lines.
Behinds ==
    { [i \in 1..k |-> NUL] : k \in 0..MaxBehind }
    \cup { << "9", ".", "9", ".", "9", NUL, NUL, NUL >>,
           << ",", "7", "7", ",", QUOTE, "x", NUL, NUL, NUL, NUL >>,
           << "1", NUL, "2", NUL, "3", NUL, "4", NUL, "5", NUL, "6", NUL >> }

\* The memory a scanner reads: the line, its terminator and what is behind
\* it (whose last byte is a terminator, kept implicit as for every line).
MemOf(t) == IF t.behind = <<>> THEN t.src ELSE t.src \o << NUL >> \o t.behind

IpLines ==
    { << "1", "9", "2", ".", "1", "6", "8", ".", "1", ".", "2", "0" >>,
      << QUOTE, "1", "0", ".", "0", ".", "0", ".", "1", QUOTE, ",", "5" >>,
      << "1", ".", "2", ".", "3" >>,
      << "1", ".", "2" >>,
      << "1" >>,
      <<>> }

MacLines ==
    { << "1", "a", ":", "f", "e", ":", "3", "4", ":", "e", "1", ":", "2", "c", ":",
         "F", "F" >>,
      << QUOTE, "0", "1", ":", "0", "2", ":", "0", "3", ":", "0", "4", ":", "0", "5",
         ":", "0", "6", QUOTE, ",", "7" >>,
      << "1", "a", ":", "f", "e", ":", "3", "4" >>,
      << "1", "a" >>,
      <<>> }

\* Registration lines, some shorter than the 7 characters of "+CREG: ".
ShortCregLines ==
    { << "+", "C", "R", "E", "G", ":", " ", "1" >>,
      << "+", "C", "R", "E", "G", ":", " ", "0", ",", "5" >>,
      << "+", "C", "R", "E", "G", ":" >>,
      << "+", "C", "R" >>,
      << "+" >>,
      << "1" >> }

CursorArgs ==
    /\ \E b \in Behinds :
          \/ \E s \in IpLines : tok = [fn |-> "ip", src |-> s, behind |-> b]
          \/ \E s \in MacLines : tok = [fn |-> "mac", src |-> s, behind |-> b]
          \/ \E s \in ShortCregLines, skip_first \in BOOLEAN :
                 tok = [fn |-> "creg", src |-> s, behind |-> b,
                        skip_first |-> skip_first]
    /\ res = NoRes

\* The caller runs gsmi_parse_ip on the line.  A read behind the memory's
\* last byte traps; otherwise the call returns with the octets it decoded
\* from whatever the memory holds.
CallParseIp ==
    /\ tok.fn = "ip" /\ ~res.done
    /\ LET r == ParseIp(MemOf(tok), 1)
       IN  res' = IF OutOfMemory(MemOf(tok), r.read)
                      THEN [done |-> TRUE, trap |-> TRUE, ret |-> 0, p |-> 1,
                            addr |-> <<>>]
                      ELSE [done |-> TRUE, trap |-> FALSE, ret |-> r.ret, p |-> r.p,
                            addr |-> r.addr]
    /\ UNCHANGED tok

\* The caller runs gsmi_parse_mac on the line.
CallParseMac ==
    /\ tok.fn = "mac" /\ ~res.done
    /\ LET r == ParseMac(MemOf(tok), 1)
       IN  res' = IF OutOfMemory(MemOf(tok), r.read)
                      THEN [done |-> TRUE, trap |-> TRUE, ret |-> 0, p |-> 1,
                            addr |-> <<>>]
                      ELSE [done |-> TRUE, trap |-> FALSE, ret |-> r.ret, p |-> r.p,
                            addr |-> r.addr]
    /\ UNCHANGED tok

-----------------------------------------------------------------------------
(* Device state, commands and entry records of the statement parsers *)

lineVars == <<gsm, requests, last, events, fault>>

EntryNameSize == 20     \* sizeof(e->name)
EntryNumberSize == 26   \* sizeof(e->number)
SmsStatusSize == 11     \* char t[11]

MaxEntries == 2         \* largest list capacity etr explored
MaxRequests == 2        \* requests the scheduler's queue takes
MaxEvents == 2          \* events recorded from the callback layer

\* gsm_network_reg_status_t values of a registered device
GSM_NETWORK_REG_STATUS_CONNECTED == 1
GSM_NETWORK_REG_STATUS_CONNECTED_ROAMING == 5

\* gsm_operator_format_t
GSM_OPERATOR_FORMAT_LONG_NAME == 0
GSM_OPERATOR_FORMAT_SHORT_NAME == 1
GSM_OPERATOR_FORMAT_NUMBER == 2
GSM_OPERATOR_FORMAT_INVALID == 3

\* gsm.network.curr_operator; data is the member of the union last written.
ZeroOperator ==
    [mode |-> 0, format |-> 0, data |-> [as |-> "num", val |-> 0]]

\* The part of the global gsm the parsers write before any line arrived.
\* gsm_sim_state_t: the enumerators lines 344-354 assign.
SimStates == { "READY", "NOT_READY", "NOT_INSERTED", "PIN", "PUK" }

GsmInit ==
    [network |-> [status |-> 0, curr_operator |-> ZeroOperator],
     sim_state |-> "NOT_READY"]

ZeroDatetime ==
    [date |-> 0, month |-> 0, year |-> 0, hours |-> 0, minutes |-> 0, seconds |-> 0]

ZeroPbEntry == [pos |-> 0, name |-> <<>>, type |-> 0, number |-> <<>>]

ZeroSmsEntry ==
    [mem |-> 0, pos |-> 0, status |-> "ALL", number |-> <<>>, name |-> <<>>,
     datetime |-> ZeroDatetime]

\* Phonebook list (CPBR) or search (CPBF) command: pb_list / pb_search.
PbCmd(kind, etr, erSet) ==
    [cmd_def |-> kind,
     msg |-> [entries |-> [i \in 1..etr |-> ZeroPbEntry], etr |-> etr, ei |-> 0,
              erSet |-> erSet, erVal |-> 0]]

\* SMS list command: sms_list.
SmsListCmd(etr) ==
    [cmd_def |-> "CMGL",
     msg |-> [entries |-> [i \in 1..etr |-> ZeroSmsEntry], etr |-> etr, ei |-> 0,
              mem |-> 1]]

\* SMS read command: sms_read, entry is the user's record.
SmsReadCmd == [cmd_def |-> "CMGR", msg |-> [entry |-> ZeroSmsEntry]]

\* Current-operator query: cops_get, curr is the user's record (currSet: the
\* pointer is not NULL).
CopsGetCmd(currSet) ==
    [cmd_def |-> "COPS_GET", msg |-> [currSet |-> currSet, curr |-> ZeroOperator]]

NoCall == [fn |-> "none", ret |-> 1, slot |-> "none", note |-> "none"]

LineIdle ==
    /\ gsm = GsmInit
    /\ requests = 0
    /\ last = NoCall
    /\ events = <<>>
    /\ fault = FALSE

-----------------------------------------------------------------------------
(* Operator scan: gsmi_parse_cops_scan *)

LongNameSize == 20      \* sizeof(gsm_operator_t.long_name)
ShortNameSize == 10     \* sizeof(gsm_operator_t.short_name)

MaxOps == 2             \* largest record-array capacity opsl explored
MaxFeeds == 5           \* unscripted bytes fed to one scan

\* memset(&u, 0, sizeof(u)): also the value of the static before the first call.
UReset == [bo |-> 0, ccd |-> 0, tn |-> 0, tp |-> 0, ch_prev |-> NUL]

ZeroOp == [stat |-> 0, long_name |-> <<>>, short_name |-> <<>>, num |-> 0]

\* buf[tp++] = ch; buf[tp] = 0, guarded by tp < size - 1.  The buffer is held
\* as its C string: the first tp characters stay, ch follows, the terminator
\* cuts whatever was behind it.  When tp is beyond the terminator already in
\* the buffer (u.tp was advanced on behalf of another buffer), both stores
\* land behind that terminator and the C string reads as before.
PutChar(buf, tp, size, ch) ==
    IF tp < size - 1
        THEN [buf |-> IF tp <= Len(buf) THEN SubSeq(buf, 1, tp) \o <<ch>> ELSE buf,
              tp |-> tp + 1]
        ELSE [buf |-> buf, tp |-> tp]

\* Mutant of Accumulate: the old value is not shifted one decimal place.
Accumulate_NoShift(old, ch) == old + (CharCode(ch) - Zero)

\* stat and num accumulate 10 * old + (ch - '0') in unsigned arithmetic; the
\* model keeps the integer itself, which is the stored value as long as it
\* is in 0 .. 2^31 and its two's-complement representative when negative.
Accumulate(old, ch) == 10 * old + (CharCode(ch) - Zero)

\* The data branch, lines 461-487: ch goes to term tn of record opsi.
ScanData(uu, m, ch) ==
    LET i == m.opsi + 1
        op == m.ops[i]
    IN  CASE uu.tn = 0 ->
                [u |-> uu,
                 m |-> [m EXCEPT !.ops[i].stat = Accumulate(op.stat, ch)]]
          [] uu.tn = 1 ->
                LET r == PutChar(op.long_name, uu.tp, LongNameSize, ch)
                IN  [u |-> [uu EXCEPT !.tp = r.tp],
                     m |-> [m EXCEPT !.ops[i].long_name = r.buf]]
          [] uu.tn = 2 ->
                LET r == PutChar(op.short_name, uu.tp, ShortNameSize, ch)
                IN  [u |-> [uu EXCEPT !.tp = r.tp],
                     m |-> [m EXCEPT !.ops[i].short_name = r.buf]]
          [] OTHER ->
                [u |-> uu,
                 m |-> [m EXCEPT !.ops[i].num = Accumulate(op.num, ch)]]

\* Mutant of ScanIgnores: the latched two-commas flag is not tested.
ScanIgnores_NoCcd(uu, m) == m.opsi >= m.opsl

\* The test that ends a call early, lines 444-447.
ScanIgnores(uu, m) == uu.ccd = 1 \/ m.opsi >= m.opsl

\* Mutant of ScanCommit: the record count is not advanced.
ScanCommit_NoCount(uu, m) ==
    [u |-> [uu EXCEPT !.bo = 0, !.tn = 0, !.tp = 0], m |-> m]

\* Close bracket, lines 450-457: commit the record and publish the count.
ScanCommit(uu, m) ==
    [u |-> [uu EXCEPT !.bo = 0, !.tn = 0, !.tp = 0],
     m |-> [m EXCEPT !.opsi = m.opsi + 1,
                     !.opfVal = IF m.opfSet THEN m.opsi + 1 ELSE m.opfVal]]

\* Lines 449-495, entered when the call was not ended early.
ScanBody(uu, m, ch) ==
    IF uu.bo = 1
        THEN IF ch = ")" THEN ScanCommit(uu, m)
             ELSE IF ch = ","
                 THEN [u |-> [uu EXCEPT !.tn = (uu.tn + 1) % 4, !.tp = 0], m |-> m]
             ELSE IF ch # "\"" THEN ScanData(uu, m, ch)
             ELSE [u |-> uu, m |-> m]
        ELSE IF ch = "(" THEN [u |-> [uu EXCEPT !.bo = 1], m |-> m]
             ELSE IF ch = "," /\ uu.ch_prev = ","
                 THEN [u |-> [uu EXCEPT !.ccd = 1], m |-> m]
             ELSE [u |-> uu, m |-> m]

\* gsmi_parse_cops_scan(ch, 0) on FSM state uu and the active command's
\* cops_scan member m: the new FSM state and member.
CopsScanStep(uu, m, ch) ==
    IF uu.ch_prev = NUL /\ ch = " "
        THEN [u |-> uu, m |-> m]
        ELSE LET u1 == IF uu.ch_prev = NUL /\ ch = ","
                           THEN [uu EXCEPT !.ccd = 1] ELSE uu
             IN  IF ScanIgnores(u1, m)
                     THEN [u |-> u1, m |-> m]
                     ELSE LET r == ScanBody(u1, m, ch)
                          IN  [u |-> [r.u EXCEPT !.ch_prev = ch], m |-> r.m]

-----------------------------------------------------------------------------
(* Commands *)

ScanIds == {1, 2}

\* A command that is no operator scan; its union holds nothing the scan reads.
IdleCmd == [cmd_def |-> "IDLE", msg |-> [none |-> TRUE]]

\* The command gsm_operator_scan queues: the user's array ops of opsl
\* records, zeroed, the count opsi at 0, and the observer opf (opfSet: the
\* pointer is not NULL; opfVal: the user's variable it points to).
ScanCmd(opsl, opfSet) ==
    [cmd_def |-> "COPS_SCAN",
     msg |-> [ops |-> [i \in 1..opsl |-> ZeroOp], opsl |-> opsl, opsi |-> 0,
              opfSet |-> opfSet, opfVal |-> 0]]

CopsScanExample ==
    << "(", "1", ",", "\"", "L", "o", "n", "g", " ", "N", "a", "m", "e", "\"", ",",
       "\"", "S", "h", "o", "r", "t", "\"", ",", "2", "6", "2", "0", "1", ")", ",",
       "(", "2", ",", "\"", "O", "t", "h", "e", "r", "\"", ",", "\"", "O", "\"", ",",
       "2", "6", "2", "0", "2", ")" >>

\* A record with a fifth field, the access technology:  (2,"A","B",7,3)
CopsScanFiveFields ==
    << " ", "(", "2", ",", "\"", "A", "\"", ",", "\"", "B", "\"", ",", "7", ",", "3", ")" >>

ScanScripts ==
    { CopsScanExample,
      << "(", ")" >>,
      << ",", ",", "(", "0", "-", "4", ")" >>,
      CopsScanFiveFields }

ScanAlphabet == { "(", ")", ",", "\"", " ", "7" }

-----------------------------------------------------------------------------
(* One operator scan fed by the transport *)

InitScan ==
    /\ u = UReset
    /\ cur = 1
    /\ \E opsl \in 0..MaxOps, opfSet \in BOOLEAN :
           cmds = [i \in ScanIds |-> IF i = 1 THEN ScanCmd(opsl, opfSet) ELSE IdleCmd]
    /\ \E s \in ScanScripts \cup {<<>>} :
           /\ rx = [i \in ScanIds |-> IF i = 1 THEN s ELSE <<>>]
           /\ scripted = [i \in ScanIds |-> i = 1 /\ s # <<>>]
    /\ fed = [i \in ScanIds |-> <<>>]
    /\ TokIdle
    /\ LineIdle

\* gsmi_parse_cops_scan(ch, 1) made for scan id: lines 430-434.
CopsScanReset(id) ==
    /\ IF scripted[id] THEN fed[id] = <<>> ELSE Len(fed[id]) < MaxFeeds
    /\ cur' = id
    /\ u' = UReset
    /\ fed' = [fed EXCEPT ![id] = Append(@, RST)]
    /\ UNCHANGED <<cmds, rx, scripted, tokVars, lineVars>>

\* gsmi_parse_cops_scan(ch, 0) made for scan id with gsm.msg its command.
CopsScanFeed(id, ch) ==
    /\ cmds[id].cmd_def = "COPS_SCAN"
    /\ IF scripted[id]
           THEN rx[id] # <<>> /\ ch = Head(rx[id])
           ELSE Len(fed[id]) < MaxFeeds /\ ch \in ScanAlphabet
    /\ LET r == CopsScanStep(u, cmds[id].msg, ch)
       IN  /\ u' = r.u
           /\ cmds' = [cmds EXCEPT ![id].msg = r.m]
    /\ cur' = id
    /\ rx' = [rx EXCEPT ![id] = IF scripted[id] THEN Tail(@) ELSE @]
    /\ fed' = [fed EXCEPT ![id] = Append(@, ch)]
    /\ UNCHANGED <<scripted, tokVars, lineVars>>

ScanChars == ScanAlphabet \cup UNION { { s[i] : i \in 1..Len(s) } : s \in ScanScripts }

NextScan ==
    \/ CopsScanReset(1)
    \/ \E ch \in ScanChars : CopsScanFeed(1, ch)

SpecScan == InitScan /\ [][NextScan]_vars

-----------------------------------------------------------------------------
(* Two operator scans, each with its own command and record array, whose
   calls the scheduler interleaves; the static u is the only FSM state. *)

TwoScanScripts ==
    { << "(", "1", ")" >>,
      << "(", "2", ",", "\"", "A", "\"", ")", ",", "(", "3", ")" >> }

InitTwoScans ==
    /\ u = UReset
    /\ cur = 0
    /\ \E opsl \in 1..MaxOps :
           cmds = [i \in ScanIds |-> ScanCmd(opsl, TRUE)]
    /\ rx \in [ScanIds -> TwoScanScripts]
    /\ scripted = [i \in ScanIds |-> TRUE]
    /\ fed = [i \in ScanIds |-> <<>>]
    /\ TokIdle
    /\ LineIdle

NextTwoScans ==
    \E id \in ScanIds :
        \/ CopsScanReset(id)
        \/ \E ch \in ScanChars : CopsScanFeed(id, ch)

SpecTwoScans == InitTwoScans /\ [][NextTwoScans]_vars

-----------------------------------------------------------------------------
(* Statement parsers *)

\* if (*str == '+') str += 7;
SkipPrefix(s) == IF At(s, 1) = "+" THEN 8 ELSE 1

\* What a call leaves in last: its return value and the member of the active
\* command's union it stored through ("none": it stored through none).
Returned(fn, ret, slot, note) ==
    [fn |-> fn, ret |-> ret, slot |-> slot, note |-> note]

\* The rest of the model, which no statement parser touches.
ScanUntouched == UNCHANGED <<u, rx, fed, scripted, tokVars>>

\* gsmi_check_and_trim(&src): the new cursor.
CheckAndTrim(s, p) ==
    IF At(s, p) # QUOTE /\ At(s, p) # CR /\ At(s, p) # ","
        THEN ParseString(s, p, FALSE, 0, TRUE).p
        ELSE p

\* gsmi_parse_datetime(&src, dt): the record written and the new cursor.
ParseDatetime(s, p0) ==
    LET r1 == ParseNumber(s, p0)
        r2 == ParseNumber(s, r1.p)
        r3 == ParseNumber(s, r2.p)
        r4 == ParseNumber(s, r3.p)
        r5 == ParseNumber(s, r4.p)
        r6 == ParseNumber(s, r5.p)
    IN  [dt |-> [date |-> r1.val, month |-> r2.val, year |-> 2000 + r3.val,
                 hours |-> r4.val, minutes |-> r5.val, seconds |-> r6.val],
         p |-> CheckAndTrim(s, r6.p)]

Str_REC_UNREAD == << "R", "E", "C", " ", "U", "N", "R", "E", "A", "D" >>
Str_REC_READ == << "R", "E", "C", " ", "R", "E", "A", "D" >>
Str_STO_UNSENT == << "S", "T", "O", " ", "U", "N", "S", "E", "N", "T" >>
Str_REC_SENT == << "R", "E", "C", " ", "S", "E", "N", "T" >>

\* gsmi_parse_sms_status(&src, &stat) with *stat = old: the return value, the
\* new cursor and *stat.
ParseSmsStatus(s, p0, old) ==
    LET r == ParseString(s, p0, TRUE, SmsStatusSize, TRUE)
        st == CASE r.dst = Str_REC_UNREAD -> "UNREAD"
                [] r.dst = Str_REC_READ -> "READ"
                [] r.dst = Str_STO_UNSENT -> "UNSENT"
                [] r.dst = Str_REC_SENT -> "SENT"
                [] OTHER -> "ALL"
    IN  IF st # "ALL"
            THEN [ret |-> 1, p |-> r.p, stat |-> st]
            ELSE [ret |-> 0, p |-> r.p, stat |-> old]

\* Lines 772-775 / 803-806: the phonebook entry a line is parsed into.
PbEntryOf(s) ==
    LET r1 == ParseNumber(s, SkipPrefix(s))
        r2 == ParseString(s, r1.p, TRUE, EntryNameSize, TRUE)
        r3 == ParseNumber(s, r2.p)
        r4 == ParseString(s, r3.p, TRUE, EntryNumberSize, TRUE)
    IN  [pos |-> r1.val, name |-> r2.dst, type |-> r3.val, number |-> r4.dst]

\* Lines 619-622 / 649-652: what a line makes of SMS entry e (its status,
\* number, name and date/time), the cursor being at p0.
SmsFieldsOf(s, p0, e) ==
    LET r1 == ParseSmsStatus(s, p0, e.status)
        r2 == ParseString(s, r1.p, TRUE, EntryNumberSize, TRUE)
        r3 == ParseString(s, r2.p, TRUE, EntryNameSize, TRUE)
        r4 == ParseDatetime(s, r3.p)
    IN  [e EXCEPT !.status = r1.stat, !.number = r2.dst, !.name = r3.dst,
                  !.datetime = r4.dt]

\* Mutant of ListDeclines: any phonebook command passes for the matching one.
ListDeclines_AnyPhonebook(kind) ==
    \/ cur = 0
    \/ IF kind \in {"CPBR", "CPBF"}
           THEN cmds[cur].cmd_def \notin {"CPBR", "CPBF"}
           ELSE cmds[cur].cmd_def # kind
    \/ cmds[cur].msg.ei >= cmds[cur].msg.etr

\* Mutant of ListDeclines: a full array is not tested for.
ListDeclines_NoCapacity(kind) == cur = 0 \/ cmds[cur].cmd_def # kind

\* The test that opens every list parser (lines 637-640, 762-765, 793-796):
\* no active command, another kind of command, or no room left.
ListDeclines(kind) ==
    \/ cur = 0
    \/ cmds[cur].cmd_def # kind
    \/ cmds[cur].msg.ei >= cmds[cur].msg.etr

\* Body shared by gsmi_parse_cpbr and gsmi_parse_cpbf.
ParsePb(fn, kind, line) ==
    /\ IF ListDeclines(kind)
           THEN /\ last' = Returned(fn, 0, "none", "declined")
                /\ UNCHANGED cmds
           ELSE LET m == cmds[cur].msg
                    ei == m.ei + 1
                IN  /\ cmds' = [cmds EXCEPT ![cur].msg =
                                   [m EXCEPT !.entries[ei] = PbEntryOf(line),
                                             !.ei = ei,
                                             !.erVal = IF m.erSet THEN ei ELSE @]]
                    /\ last' = Returned(fn, 1, kind, "stored")
    /\ UNCHANGED <<cur, gsm, requests, events, fault>>

\* gsmi_parse_cpbr(str)
gsmi_parse_cpbr(line) ==
    /\ ~fault
    /\ ParsePb("cpbr", "CPBR", line)
    /\ ScanUntouched

\* gsmi_parse_cpbf(str)
gsmi_parse_cpbf(line) ==
    /\ ~fault
    /\ ParsePb("cpbf", "CPBF", line)
    /\ ScanUntouched

\* gsmi_parse_cmgl(str)
gsmi_parse_cmgl(line) ==
    /\ ~fault
    /\ IF ListDeclines("CMGL")
           THEN /\ last' = Returned("cmgl", 0, "none", "declined")
                /\ UNCHANGED cmds
           ELSE LET m == cmds[cur].msg
                    r == ParseNumber(line, SkipPrefix(line))
                    e == [m.entries[m.ei + 1] EXCEPT !.mem = m.mem, !.pos = r.val]
                IN  /\ cmds' = [cmds EXCEPT ![cur].msg.entries[m.ei + 1] =
                                   SmsFieldsOf(line, r.p, e)]
                    /\ last' = Returned("cmgl", 1, "CMGL", "stored")
    /\ UNCHANGED <<cur, gsm, requests, events, fault>>
    /\ ScanUntouched

\* gsmi_parse_cmgr(str).  The entry pointer is read from gsm.msg without any
\* test.  With an SMS read command active the user's entry is filled; with
\* none, or one of another kind, the pointer is whatever the bytes there
\* hold and the four stores go through it: either the access traps, or the
\* stores land in memory this model does not hold.
gsmi_parse_cmgr(line) ==
    /\ ~fault
    /\ last' = Returned("cmgr", 1, "CMGR", "stored")
    /\ IF cur # 0 /\ cmds[cur].cmd_def = "CMGR"
           THEN /\ cmds' = [cmds EXCEPT ![cur].msg.entry =
                               SmsFieldsOf(line, SkipPrefix(line), @)]
                /\ UNCHANGED fault
           ELSE /\ fault' \in BOOLEAN
                /\ UNCHANGED cmds
    /\ UNCHANGED <<cur, gsm, requests, events>>
    /\ ScanUntouched

\* Mutant of CopsNumber: the digits are read where the cursor stands, the
\* quote in front of them is not skipped.
CopsNumber_NoQuote(s, p) == NumLoop(s, p, 0, FALSE).val

\* Line 396: data.num = GSM_U32(gsmi_parse_number(&str, 1)).
CopsNumber(s, p) == ParseNumber(s, p).val

\* Lines 384-402: the current-operator record a line is parsed into.
CurrOperatorOf(s, old) ==
    LET r1 == ParseNumber(s, SkipPrefix(s))
        r2 == ParseNumber(s, r1.p)
        o1 == [old EXCEPT !.mode = r1.val]
        o2 == [o1 EXCEPT !.format = r2.val]
    IN  IF At(s, r1.p) = CR
            THEN [o1 EXCEPT !.format = GSM_OPERATOR_FORMAT_INVALID]
        ELSE IF At(s, r2.p) = CR THEN o2
        ELSE CASE r2.val = GSM_OPERATOR_FORMAT_LONG_NAME ->
                    [o2 EXCEPT !.data =
                        [as |-> "long_name",
                         val |-> ParseString(s, r2.p, TRUE, LongNameSize, TRUE).dst]]
               [] r2.val = GSM_OPERATOR_FORMAT_SHORT_NAME ->
                    [o2 EXCEPT !.data =
                        [as |-> "short_name",
                         val |-> ParseString(s, r2.p, TRUE, ShortNameSize, TRUE).dst]]
               [] r2.val = GSM_OPERATOR_FORMAT_NUMBER ->
                    [o2 EXCEPT !.data = [as |-> "num", val |-> CopsNumber(s, r2.p)]]
               [] OTHER -> o2

\* The test before the copy to the user's record, lines 404-405.
CopsCopies ==
    cur # 0 /\ cmds[cur].cmd_def = "COPS_GET" /\ cmds[cur].msg.currSet

\* gsmi_parse_cops(str)
gsmi_parse_cops(line) ==
    /\ ~fault
    /\ LET op == CurrOperatorOf(line, gsm.network.curr_operator)
       IN  /\ gsm' = [gsm EXCEPT !.network.curr_operator = op]
           /\ cmds' = IF CopsCopies
                          THEN [cmds EXCEPT ![cur].msg.curr = op] ELSE cmds
    /\ last' = Returned("cops", 1, IF CopsCopies THEN "COPS_GET" ELSE "none", "parsed")
    /\ UNCHANGED <<cur, requests, events, fault>>
    /\ ScanUntouched

\* The cursor of gsmi_parse_creg after its last number, lines 301-308.
CregCursor(s, skip_first) ==
    LET p0 == SkipPrefix(s)
        p1 == IF skip_first THEN ParseNumber(s, p0).p ELSE p0
    IN  ParseNumber(s, p1).p

\* The status gsmi_parse_creg decodes, lines 301-308.
CregStatusOf(s, skip_first) ==
    LET p0 == SkipPrefix(s)
        p1 == IF skip_first THEN ParseNumber(s, p0).p ELSE p0
    IN  ParseNumber(s, p1).val

Attached(status) ==
    \/ status = GSM_NETWORK_REG_STATUS_CONNECTED
    \/ status = GSM_NETWORK_REG_STATUS_CONNECTED_ROAMING

\* The value gsmi_parse_creg returns, line 330, for a decoded status and the
\* outcome of gsm_operator_get (enqueued: it returned gsmOK).
CregReturns(status, enqueued) == 1

\* gsmi_parse_creg(str, skip_first).  accepts: the scheduler has the memory
\* for the follow-up request; its queue takes MaxRequests of them.
gsmi_parse_creg(line, skip_first, accepts) ==
    /\ ~fault
    /\ LET status == CregStatusOf(line, skip_first)
           enqueued == accepts /\ requests < MaxRequests
       IN  /\ gsm' = [gsm EXCEPT !.network.status = status]
           /\ requests' = IF Attached(status) /\ enqueued
                              THEN requests + 1 ELSE requests
           /\ last' = Returned("creg", CregReturns(status, enqueued), "none",
                               IF ~Attached(status) THEN "detached"
                               ELSE IF enqueued THEN "enqueued" ELSE "not enqueued")
    /\ fault' = OutOfMemory(line, SkipPrefix(line))
    /\ UNCHANGED <<cur, cmds, events>>
    /\ ScanUntouched

\* !strncmp(str, lit, n) with str at position p of s: the first n characters
\* agree, the comparison ending at the literal's terminator when n reaches it.
StrNCmpEq(s, p, lit, n) ==
    /\ \A i \in 1..(IF n < Len(lit) THEN n ELSE Len(lit)) : At(s, p + i - 1) = lit[i]
    /\ n > Len(lit) => At(s, p + Len(lit)) = NUL

Str_READY == << "R", "E", "A", "D", "Y" >>
Str_NOT_READY == << "N", "O", "T", " ", "R", "E", "A", "D", "Y" >>
Str_NOT_INSERTED == << "N", "O", "T", " ", "I", "N", "S", "E", "R", "T", "E", "D" >>
Str_SIM_PIN == << "S", "I", "M", " ", "P", "I", "N" >>
Str_PIN_PUK == << "P", "I", "N", " ", "P", "U", "K" >>

\* Lines 343-355: the SIM state a line stands for.
CpinStateOf(s) ==
    LET p == SkipPrefix(s)
    IN  IF StrNCmpEq(s, p, Str_READY, 5) THEN "READY"
        ELSE IF StrNCmpEq(s, p, Str_NOT_READY, 9) THEN "NOT_READY"
        ELSE IF StrNCmpEq(s, p, Str_NOT_INSERTED, 14) THEN "NOT_INSERTED"
        ELSE IF StrNCmpEq(s, p, Str_SIM_PIN, 7) THEN "PIN"
        ELSE IF StrNCmpEq(s, p, Str_PIN_PUK, 7) THEN "PUK"
        ELSE "NOT_READY"

\* Mutant of SimInfoWanted: the SIM information is fetched in every state.
SimInfoWanted_Always(state) == TRUE

\* Line 361: the test before gsmi_get_sim_info(0).
SimInfoWanted(state) == state = "READY"

\* gsmi_parse_cpin(str, send_evt).  accepts: the scheduler has the memory for
\* the request gsmi_get_sim_info makes; its result is not looked at.  The
\* call's arguments are kept in tok.
gsmi_parse_cpin(line, send_evt, accepts) ==
    /\ ~fault
    /\ send_evt => Len(events) < MaxEvents
    /\ LET state == CpinStateOf(line)
       IN  /\ gsm' = [gsm EXCEPT !.sim_state = state]
           /\ requests' = IF SimInfoWanted(state) /\ accepts /\ requests < MaxRequests
                              THEN requests + 1 ELSE requests
           /\ last' = Returned("cpin", 1, "none",
                               IF SimInfoWanted(state) THEN "sim_info" ELSE "none")
           /\ events' = IF send_evt
                            THEN Append(events, [type |-> "GSM_CB_CPIN", state |-> state])
                            ELSE events
    /\ tok' = [fn |-> "cpin", src |-> line, send_evt |-> send_evt]
    /\ UNCHANGED <<cur, cmds, fault, u, rx, fed, scripted, res>>

CpinPrefix == << "+", "C", "P", "I", "N", ":", " " >>

CpinLines ==
    { CpinPrefix \o Str_READY \o << CR, LF >>,
      Str_READY,
      CpinPrefix \o Str_READY \o << "X" >>,
      CpinPrefix \o Str_NOT_READY \o << CR, LF >>,
      CpinPrefix \o Str_NOT_INSERTED,
      CpinPrefix \o Str_NOT_INSERTED \o << CR, LF >>,
      CpinPrefix \o Str_SIM_PIN \o << CR, LF >>,
      CpinPrefix \o Str_PIN_PUK \o << CR, LF >>,
      CpinPrefix \o << "S", "I", "M", " ", "P", "U", "K", CR, LF >>,
      CpinPrefix \o << "B", "U", "S", "Y" >>,
      CpinPrefix \o << "R", "E", "A", "D" >>,
      CpinPrefix }

PbLines ==
    { << "+", "C", "P", "B", "R", ":", " ", "1", ",", QUOTE, "A", "l", QUOTE, ",", "1",
       "2", "9", ",", QUOTE, "5", "5", QUOTE >>,
      << "2", ",", QUOTE, "B", "o", QUOTE, ",", "1", "4", "5", ",", QUOTE, "+", "7",
         QUOTE >>,
      << "+", "C", "P", "B", "F", ":", " ", "3", ",", QUOTE, "C", "y", QUOTE, ",", "1",
         "2", "9" >> }

SmsListLines ==
    { << "+", "C", "M", "G", "L", ":", " ", "1", ",", QUOTE, "R", "E", "C", " ", "R",
       "E", "A", "D", QUOTE, ",", QUOTE, "5", "5", QUOTE, ",", QUOTE, "A", "l", QUOTE,
       ",", QUOTE, "1", "8", "/", "0", "1", "/", "0", "2", ",", "0", "3", ":", "0",
       "4", ":", "0", "5", "+", "0", "0", QUOTE >>,
      << "2", ",", QUOTE, "R", "E", "C", " ", "U", "N", "R", "E", "A", "D", QUOTE, ",",
         QUOTE, "6", "6", QUOTE, ",", QUOTE, "B", "o", QUOTE >>,
      << "3", ",", QUOTE, "B", "A", "D", QUOTE, ",", QUOTE, "7", "7", QUOTE >> }

SmsReadLines ==
    { << "+", "C", "M", "G", "R", ":", " ", QUOTE, "R", "E", "C", " ", "R", "E", "A",
       "D", QUOTE, ",", QUOTE, "5", "5", QUOTE, ",", QUOTE, "A", "l", QUOTE, ",",
       QUOTE, "1", "8", "/", "0", "1", "/", "0", "2", ",", "0", "3", ":", "0", "4",
       ":", "0", "5", "+", "0", "8", QUOTE >>,
      << QUOTE, "S", "T", "O", " ", "U", "N", "S", "E", "N", "T", QUOTE, ",", QUOTE,
         "6", "6", QUOTE >> }

CopsLines ==
    { << "+", "C", "O", "P", "S", ":", " ", "0", ",", "2", ",", QUOTE, "2", "6", "2",
       "0", "1", QUOTE, CR >>,
      << "+", "C", "O", "P", "S", ":", " ", "1", ",", "0", ",", QUOTE, "L", "o", "n",
         "g", QUOTE, CR >>,
      << "+", "C", "O", "P", "S", ":", " ", "0", ",", "1", ",", QUOTE, "S", "h", QUOTE,
         CR >>,
      << "+", "C", "O", "P", "S", ":", " ", "2", CR >> }

MaxCode == 12           \* the small numeric operator codes 0..MaxCode

\* Numeric operator codes: the small ones, codes of real networks and the
\* largest int32 value.
CopsCodes == (0..MaxCode) \cup { 26201, 310260, INT32_MAX }

CopsModes == 0..2

CopsPrefix == << "+", "C", "O", "P", "S", ":", " " >>

\* The line +COPS: <mode>,2,"<code>"<CR> the modem sends for the numeric
\* format (quoted: the code stands in quotes).
CopsNumericLine(mode, code, quoted) ==
    CopsPrefix \o DecimalOf(mode) \o << ",", "2", "," >>
        \o (IF quoted THEN << QUOTE >> ELSE <<>>) \o DecimalOf(code)
        \o (IF quoted THEN << QUOTE >> ELSE <<>>) \o << CR >>

CregLines ==
    { << "+", "C", "R", "E", "G", ":", " ", "1" >>,
      << "+", "C", "R", "E", "G", ":", " ", "0", ",", "5" >>,
      << "+", "C", "R", "E", "G", ":", " ", "2" >> }

\* The commands the scheduler may have made active when lines arrive.
LineCmds ==
    { PbCmd(kind, etr, erSet) :
          kind \in {"CPBR", "CPBF"}, etr \in 0..MaxEntries, erSet \in BOOLEAN }
    \cup { SmsListCmd(etr) : etr \in 0..MaxEntries }
    \cup { SmsReadCmd }
    \cup { CopsGetCmd(currSet) : currSet \in BOOLEAN }

Init ==
    /\ cur \in {0, 1}
    /\ \E c \in LineCmds : cmds = [i \in ScanIds |-> IF i = 1 THEN c ELSE IdleCmd]
    /\ u = UReset
    /\ rx = [i \in ScanIds |-> <<>>]
    /\ fed = [i \in ScanIds |-> <<>>]
    /\ scripted = [i \in ScanIds |-> FALSE]
    /\ TokIdle
    /\ LineIdle

\* The parsers that store through the active command's slot.
Next ==
    \/ \E line \in PbLines : gsmi_parse_cpbr(line)
    \/ \E line \in PbLines : gsmi_parse_cpbf(line)
    \/ \E line \in SmsListLines : gsmi_parse_cmgl(line)
    \/ \E line \in SmsReadLines : gsmi_parse_cmgr(line)
    \/ \E line \in CopsLines : gsmi_parse_cops(line)

Spec == Init /\ [][Next]_vars

\* The parsers of the network state: registration and current operator.
NextNet ==
    \/ \E line \in CregLines, skip_first \in BOOLEAN, accepts \in BOOLEAN :
           gsmi_parse_creg(line, skip_first, accepts)
    \/ \E line \in CopsLines : gsmi_parse_cops(line)

SpecNet == Init /\ [][NextNet]_vars

-----------------------------------------------------------------------------
(* The token scanners called on their own *)

ScanIdle ==
    /\ u = UReset
    /\ cur = 0
    /\ cmds = [i \in ScanIds |-> IdleCmd]
    /\ rx = [i \in ScanIds |-> <<>>]
    /\ fed = [i \in ScanIds |-> <<>>]
    /\ scripted = [i \in ScanIds |-> FALSE]

InitTok ==
    /\ TokArgs
    /\ ScanIdle
    /\ LineIdle

NextTok == CallParseString /\ UNCHANGED <<scanVars, lineVars>>

\* A numeric current-operator line is chosen; the device has or has not a
\* current-operator command active.
InitCops ==
    /\ \E mode \in CopsModes, code \in CopsCodes, quoted \in BOOLEAN :
           tok = [fn |-> "cops", mode |-> mode, code |-> code,
                  src |-> CopsNumericLine(mode, code, quoted)]
    /\ res = NoRes
    /\ cur \in {0, 1}
    /\ \E c \in { CopsGetCmd(TRUE), CopsGetCmd(FALSE), SmsReadCmd } :
           cmds = [i \in ScanIds |-> IF i = 1 THEN c ELSE IdleCmd]
    /\ u = UReset
    /\ rx = [i \in ScanIds |-> <<>>]
    /\ fed = [i \in ScanIds |-> <<>>]
    /\ scripted = [i \in ScanIds |-> FALSE]
    /\ LineIdle

\* Current-operator lines arrive: the chosen numeric one or another one.
NextCops == \E line \in CopsLines \cup { tok.src } : gsmi_parse_cops(line)

SpecCops == InitCops /\ [][NextCops]_vars

\* The four phrases of lines 565-571 and the status each stands for.
StatusPhrases == { Str_REC_UNREAD, Str_REC_READ, Str_STO_UNSENT, Str_REC_SENT }

SmsStatuses == { "UNREAD", "READ", "UNSENT", "SENT", "ALL" }

MaxTail == 2            \* characters appended to a phrase

\* Status tokens: the phrases, phrases with something appended, phrases cut
\* short, and other words.
StatusTokens ==
    { ph \o t : ph \in StatusPhrases, t \in Strings({ "X", " " }, MaxTail) }
    \cup { SubSeq(ph, 1, Len(ph) - 1) : ph \in StatusPhrases }
    \cup { <<>>, << "A", "L", "L" >>, << "R", "E", "C" >>,
           << "r", "e", "c", " ", "r", "e", "a", "d" >> }

\* What follows the token's closing quote on the line.
StatusFollowers == { << ",", QUOTE, "5", "5", QUOTE >>, << CR >>, << LF >> }

StatusArgs ==
    /\ \E t \in StatusTokens, f \in StatusFollowers, comma \in BOOLEAN,
          old \in SmsStatuses :
           tok = [fn |-> "sms_status", token |-> t, old |-> old,
                  lead |-> IF comma THEN 1 ELSE 0,
                  src |-> (IF comma THEN << "," >> ELSE <<>>)
                              \o << QUOTE >> \o t \o << QUOTE >> \o f]
    /\ res = NoRes

\* The caller runs gsmi_parse_sms_status on the line, *stat being tok.old.
CallParseSmsStatus ==
    /\ tok.fn = "sms_status" /\ ~res.done
    /\ LET r == ParseSmsStatus(tok.src, 1, tok.old)
       IN  res' = [done |-> TRUE, ret |-> r.ret, p |-> r.p, stat |-> r.stat]
    /\ UNCHANGED tok

InitStatus ==
    /\ StatusArgs
    /\ ScanIdle
    /\ LineIdle

NextStatus == CallParseSmsStatus /\ UNCHANGED <<scanVars, lineVars>>

SpecStatus == InitStatus /\ [][NextStatus]_vars

\* The SIM is in any state when the lines arrive.
InitSim ==
    /\ TokIdle
    /\ ScanIdle
    /\ \E s0 \in SimStates : gsm = [GsmInit EXCEPT !.sim_state = s0]
    /\ requests = 0
    /\ last = NoCall
    /\ events = <<>>
    /\ fault = FALSE

NextSim ==
    \E line \in CpinLines, send_evt \in BOOLEAN, accepts \in BOOLEAN :
        gsmi_parse_cpin(line, send_evt, accepts)

SpecSim == InitSim /\ [][NextSim]_vars

InitCursor ==
    /\ CursorArgs
    /\ ScanIdle
    /\ LineIdle

\* One call of the scanner or parser the line was chosen for.
NextCursor ==
    \/ CallParseIp /\ UNCHANGED <<scanVars, lineVars>>
    \/ CallParseMac /\ UNCHANGED <<scanVars, lineVars>>
    \/ \E accepts \in BOOLEAN :
           /\ tok.fn = "creg" /\ last = NoCall
           /\ gsmi_parse_creg(MemOf(tok), tok.skip_first, accepts)

SpecCursor == InitCursor /\ [][NextCursor]_vars

SpecTok == InitTok /\ [][NextTok]_vars

InitNum ==
    /\ NumberArgs
    /\ ScanIdle
    /\ LineIdle

NextNum == CallParseNumber /\ UNCHANGED <<scanVars, lineVars>>

SpecNum == InitNum /\ [][NextNum]_vars

-----------------------------------------------------------------------------
(* Claims about the operator scan, under SpecScan *)

scan1 == cmds[1].msg

Str_LongName == << "L", "o", "n", "g", " ", "N", "a", "m", "e" >>
Str_Short == << "S", "h", "o", "r", "t" >>
Str_Other == << "O", "t", "h", "e", "r" >>

ExampleFed == fed[1] = <<RST>> \o CopsScanExample /\ scan1.opsl >= 2

\* C1: after a reset, with a zeroed record array of capacity >= 2 and count 0,
\* feeding (1,"Long Name","Short",26201),(2,"Other","O",26202) byte by byte
\* leaves count 2, record 0 = (1, "Long Name", "Short", 26201) and
\* record 1 = (2, "Other", "O", 26202).
C1_ExampleScan ==
    ExampleFed =>
        /\ scan1.opsi = 2
        /\ scan1.ops[1] = [stat |-> 1, long_name |-> Str_LongName,
                           short_name |-> Str_Short, num |-> 26201]
        /\ scan1.ops[2] = [stat |-> 2, long_name |-> Str_Other,
                           short_name |-> <<"O">>, num |-> 26202]

C1_Witness == ExampleFed /\ rx[1] = <<>>

BracketsFed == fed[1] = <<RST, "(", ")">> /\ scan1.opsl >= 1

\* C2 as stated: after a reset, feeding only '(' and ')' (capacity >= 1,
\* count 0) leaves the count at 0 and the two-delimiters flag latched.
C2_Original == BracketsFed => (scan1.opsi = 0 /\ u.ccd = 1)

\* C2 amended: after a reset, feeding only '(' and ')' (capacity >= 1,
\* count 0) commits one all-zero record, so the count is 1, and the
\* two-delimiters flag is not latched.
C2_EmptyBrackets ==
    BracketsFed => (scan1.opsi = 1 /\ scan1.ops[1] = ZeroOp /\ u.ccd = 0)

C2_Witness == BracketsFed /\ scan1.opsi = 1

Latched == u.ccd = 1 \/ scan1.opsi >= scan1.opsl

\* C3: once the count has reached the capacity or the two-delimiters flag is
\* latched, every later call leaves the record array, the count and the
\* published observer count unchanged; the count never exceeds the capacity
\* and the array never holds a record beyond the capacity.
C3_LatchedIgnores ==
    /\ [][Latched => cmds'[1].msg = cmds[1].msg]_vars
    /\ [](scan1.opsi <= scan1.opsl /\ DOMAIN scan1.ops = 1..scan1.opsl)

C3_Witness ==
    /\ fed[1] = <<RST, "(", ")", "(", "7">>
    /\ scan1.opsl = 1 /\ scan1.opsi = 1 /\ scan1.ops[1] = ZeroOp

-----------------------------------------------------------------------------
(* Claims about two interleaved scans, under SpecTwoScans *)

RECURSIVE ScanRun(_, _, _)
\* The calls of one scan made alone, in order, from FSM state uu and member m.
ScanRun(uu, m, calls) ==
    IF calls = <<>> THEN [u |-> uu, m |-> m]
    ELSE IF Head(calls) = RST THEN ScanRun(UReset, m, Tail(calls))
    ELSE LET r == CopsScanStep(uu, m, Head(calls))
         IN  ScanRun(r.u, r.m, Tail(calls))

ScanAlone(id) ==
    ScanRun(UReset, ScanCmd(cmds[id].msg.opsl, cmds[id].msg.opfSet).msg, fed[id]).m

ScanDone(id) == fed[id] # <<>> /\ Head(fed[id]) = RST /\ rx[id] = <<>>

\* C9: two scans whose single-character calls are interleaved, each reset
\* once before its own first character and each with its own record array,
\* each end with the records and the count of that scan fed alone.
C9_ScansIndependent ==
    \A id \in ScanIds : ScanDone(id) => cmds[id].msg = ScanAlone(id)

-----------------------------------------------------------------------------
(* Claims about the token scanners, under SpecTok *)

\* The position of the quote that closes the field opened at position 1:
\* the first quote from position 2 on that a comma or a line end follows
\* (0 when there is none).
ClosingQuote(s) ==
    LET ks == { k \in 2..Len(s) : StrAtClose(s, k) }
    IN  IF ks = {} THEN 0 ELSE CHOOSE k \in ks : \A j \in ks : k <= j

\* gsmi_parse_string ran on a quoted field that a comma and more text
\* follow, with a destination larger than the field.
QuotedFieldParsed ==
    /\ tok.fn = "string" /\ res.done /\ tok.dstSet
    /\ At(tok.src, 1) = QUOTE
    /\ ClosingQuote(tok.src) # 0
    /\ At(tok.src, ClosingQuote(tok.src) + 1) = ","
    /\ ClosingQuote(tok.src) + 2 <= Len(tok.src)
    /\ tok.dst_len > ClosingQuote(tok.src) - 2

\* C10 as stated: the field text comes out without its quotes and the
\* cursor is at the first character of the following field, past both the
\* closing quote and the comma.
C10_Original ==
    QuotedFieldParsed =>
        /\ res.dst = SubSeq(tok.src, 2, ClosingQuote(tok.src) - 1)
        /\ res.p = ClosingQuote(tok.src) + 2

\* C10 amended: the field text comes out without its quotes and the cursor
\* is at the comma that follows the closing quote: past the closing quote
\* only, the comma is left for the next scanner to skip.
C10_CursorAtComma ==
    QuotedFieldParsed =>
        /\ res.ret = 1
        /\ res.dst = SubSeq(tok.src, 2, ClosingQuote(tok.src) - 1)
        /\ res.p = ClosingQuote(tok.src) + 1
        /\ At(tok.src, res.p) = ","

C10_Witness ==
    /\ QuotedFieldParsed
    /\ tok.src = StringExample
    /\ res.dst = <<"a", "b", "c">> /\ res.p = 6

-----------------------------------------------------------------------------
(* Claims about the statement parsers, under Spec and SpecNet *)

\* The kind of command each list parser serves.
KindOf(fn) ==
    CASE fn = "cpbr" -> "CPBR" [] fn = "cpbf" -> "CPBF" [] fn = "cmgl" -> "CMGL"
      [] fn = "cmgr" -> "CMGR" [] fn = "cops" -> "COPS_GET" [] OTHER -> "none"

PbFns == {"cpbr", "cpbf"}

\* The active command is a phonebook list or search.
PbActive == cur # 0 /\ cmds[cur].cmd_def \in {"CPBR", "CPBF"}

\* The active command is the one parser fn serves.
Serves(fn) == cur # 0 /\ cmds[cur].cmd_def = KindOf(fn)

\* C4: under an active phonebook list (search) command of capacity etr the
\* write-cursor ei never exceeds etr and the array keeps its etr entries; a
\* gsmi_parse_cpbr (gsmi_parse_cpbf) call made when ei = etr returns failure
\* and changes no entry, not ei and not the published count.
C4_PbNeverOverruns ==
    /\ [](PbActive =>
            /\ cmds[cur].msg.ei <= cmds[cur].msg.etr
            /\ DOMAIN cmds[cur].msg.entries = 1..cmds[cur].msg.etr)
    /\ [][\A fn \in PbFns :
            (Serves(fn) /\ cmds[cur].msg.ei = cmds[cur].msg.etr /\ last'.fn = fn)
                => (last'.ret = 0 /\ cmds' = cmds)]_vars

C4_Witness ==
    /\ Serves("cpbr") /\ last.fn = "cpbr" /\ last.ret = 0
    /\ cmds[cur].msg.etr = MaxEntries /\ cmds[cur].msg.ei = MaxEntries
    /\ cmds[cur].msg.erVal = MaxEntries
    /\ \A i \in 1..MaxEntries : cmds[cur].msg.entries[i] # ZeroPbEntry

\* C5: gsmi_parse_cpbr / gsmi_parse_cpbf called with no active command, or
\* with one of another kind, returns failure and writes nothing: the device
\* state, every command's slot, cursors and published counts are unchanged
\* and no event is sent.
C5_PbDeclinesOtherKind ==
    [][\A fn \in PbFns :
        (~Serves(fn) /\ last'.fn = fn)
            => /\ last'.ret = 0 /\ last'.slot = "none"
               /\ UNCHANGED <<gsm, cmds, cur, events, requests, fault>>]_vars

C5_Witness ==
    /\ last.fn = "cpbf" /\ last.ret = 0
    /\ Serves("cpbr") /\ cmds[cur].msg.ei < cmds[cur].msg.etr

\* C6: with an SMS list command active and ei < etr, each successful
\* gsmi_parse_cmgl call writes the entry at index ei and advances ei by one.
C6_CmglAdvances ==
    [][(Serves("cmgl") /\ last'.fn = "cmgl" /\ last'.ret = 1)
          => cmds'[cur].msg.ei = cmds[cur].msg.ei + 1]_vars

\* C7: no parser stores through the active command's slot unless a command
\* is active and its kind is the one the parsed response belongs to.
C7_SlotWritesMatch ==
    last.slot # "none" => (cur # 0 /\ cmds[cur].cmd_def = last.slot)

\* C8: when gsmi_parse_creg decodes an attached status and the follow-up
\* current-operator request is not enqueued, the value it returns differs
\* from the one it returns when the request is enqueued.
C8_EnqueueFailureReported ==
    (last.fn = "creg" /\ last.note = "not enqueued")
        => last.ret # CregReturns(gsm.network.status, TRUE)

-----------------------------------------------------------------------------
(* Claims about the number scanner, under SpecNum *)

\* The number of digits the line starts with.
LeadingDigits(s) ==
    LET ns == { n \in 0..Len(s) : \A i \in 1..n : CharIsNum(s[i]) }
    IN  CHOOSE n \in ns : \A m \in ns : m <= n

RECURSIVE StripZeros(_)
\* A digit string without its leading zeros (the last digit stays).
StripZeros(d) == IF Len(d) > 1 /\ Head(d) = "0" THEN StripZeros(Tail(d)) ELSE d

\* gsmi_parse_number ran on a line that starts with a digit: a non-negative
\* integer with no sign marker.
UnsignedNumberParsed ==
    /\ tok.fn = "number" /\ res.done
    /\ LeadingDigits(tok.src) > 0

\* C11: for a non-negative integer written as digits with no sign marker,
\* whatever follows the digits, gsmi_parse_number returns exactly that
\* integer and leaves the cursor immediately after the last digit.
C11_NumberExact ==
    UnsignedNumberParsed =>
        /\ ~res.trap
        /\ res.val >= 0
        /\ DecimalOf(res.val) = StripZeros(SubSeq(tok.src, 1, LeadingDigits(tok.src)))
        /\ res.p = LeadingDigits(tok.src) + 1

-----------------------------------------------------------------------------
(* Claims about the string scanner's destination, under SpecTok *)

\* C12: with a destination that is not the discard sentinel gsmi_parse_string
\* stores at most dst_len bytes through it, terminator included, for every
\* line, every capacity from 0 up and both truncation policies, and returns
\* success also when the text was cut.
C12_WritesWithinCapacity ==
    (tok.fn = "string" /\ res.done /\ tok.dstSet) =>
        /\ res.written <= tok.dst_len
        /\ res.ret = 1

-----------------------------------------------------------------------------
(* Claims about the current-operator line, under SpecCops *)

\* C13: parsing the line built from a mode, the numeric-code format tag and
\* a chosen numeric code leaves the device's current-operator record with
\* format = numeric code and the number equal to the chosen code.
C13_CopsRoundTrip ==
    [][(tok.fn = "cops" /\ gsmi_parse_cops(tok.src)) =>
          /\ gsm'.network.curr_operator.format = GSM_OPERATOR_FORMAT_NUMBER
          /\ gsm'.network.curr_operator.mode = tok.mode
          /\ gsm'.network.curr_operator.data = [as |-> "num", val |-> tok.code]]_vars

C13_Witness ==
    /\ tok.fn = "cops" /\ tok.code = 26201 /\ last.fn = "cops"
    /\ gsm.network.curr_operator.format = GSM_OPERATOR_FORMAT_NUMBER
    /\ gsm.network.curr_operator.data = [as |-> "num", val |-> 26201]

-----------------------------------------------------------------------------
(* Claims about the SMS status token, under SpecStatus *)

\* The status a phrase stands for.
StatusOf(t) ==
    CASE t = Str_REC_UNREAD -> "UNREAD" [] t = Str_REC_READ -> "READ"
      [] t = Str_STO_UNSENT -> "UNSENT" [] t = Str_REC_SENT -> "SENT"
      [] OTHER -> "ALL"

\* C14: gsmi_parse_sms_status returns success exactly when the token is one
\* of the four phrases and then sets the status to the matching value; for
\* every other token, one that merely begins with a phrase included, it
\* returns failure and leaves the status as it was; in both cases the cursor
\* ends behind the token's closing quote.
C14_ExactPhrases ==
    (tok.fn = "sms_status" /\ res.done) =>
        /\ (res.ret = 1) <=> (tok.token \in StatusPhrases)
        /\ res.ret = 1 => res.stat = StatusOf(tok.token)
        /\ res.ret # 1 => res.ret = 0 /\ res.stat = tok.old
        /\ res.p = tok.lead + Len(tok.token) + 3

-----------------------------------------------------------------------------
(* Claims about the SIM state line, under SpecSim *)

\* The body of the line begins with one of the five phrases.
CpinPhrased(s) ==
    \E ph \in { Str_READY, Str_NOT_READY, Str_NOT_INSERTED, Str_SIM_PIN, Str_PIN_PUK } :
        \A i \in 1..Len(ph) : At(s, SkipPrefix(s) + i - 1) = ph[i]

\* C15: a gsmi_parse_cpin call asks for the SIM information if and only if
\* it leaves the SIM state ready; a line body that matches none of the five
\* phrases leaves the state not-ready and asks for nothing; the SIM event is
\* sent only when the caller asked for it and then carries the new state.
C15_CpinRequestsAndEvents ==
    [][tok'.fn = "cpin" =>
          /\ (last'.note = "sim_info") <=> (gsm'.sim_state = "READY")
          /\ requests' # requests => last'.note = "sim_info"
          /\ ~CpinPhrased(tok'.src) =>
                 /\ gsm'.sim_state = "NOT_READY"
                 /\ last'.note = "none" /\ requests' = requests
          /\ events' = IF tok'.send_evt
                           THEN Append(events, [type |-> "GSM_CB_CPIN",
                                                state |-> gsm'.sim_state])
                           ELSE events]_vars

C15_Witness ==
    /\ tok.fn = "cpin" /\ tok.send_evt /\ last.fn = "cpin"
    /\ gsm.sim_state = "READY" /\ last.note = "sim_info" /\ requests > 0
    /\ events # <<>> /\ events[Len(events)].state = "READY"

-----------------------------------------------------------------------------
(* Claims about the fields of a scanned record, under SpecScan *)

RECURSIVE CommasInRecord(_)
\* The number of commas fed since the last opening bracket.
CommasInRecord(h) ==
    IF h = <<>> \/ h[Len(h)] = "(" THEN 0
    ELSE CommasInRecord(SubSeq(h, 1, Len(h) - 1)) + (IF h[Len(h)] = "," THEN 1 ELSE 0)

\* C16: while a bracket is open, the field index does not go back from 3 to
\* 0 on a delimiter, characters fed after the record's fourth delimiter
\* change none of the records, and the record (2,"A","B",7,3) is committed
\* with the status 2 of its field 0.
C16_FifthFieldIgnored ==
    [][/\ (u.bo = 1 /\ u.tn = 3 /\ u'.bo = 1) => u'.tn = 3
       /\ (u.bo = 1 /\ u'.bo = 1 /\ CommasInRecord(fed[1]) >= 4) =>
              scan1'.ops = scan1.ops
       /\ (fed'[1] = <<RST>> \o CopsScanFiveFields /\ scan1.opsl >= 1) =>
              scan1'.ops[1].stat = 2]_vars

-----------------------------------------------------------------------------
(* Claims about the cursor and the end of the line, under SpecCursor *)

\* The position of the terminator of the line given to the call.
TerminatorOf(t) == Len(t.src) + 1

\* C17: no token scanner or statement parser moves the cursor past the end
\* of its line: for every line, and for lines shorter than expected too,
\* the call returns and its final cursor is at most the position of the
\* line's terminator.
C17_CursorWithinLine ==
    /\ (tok.fn \in {"ip", "mac"} /\ res.done) =>
           (~res.trap /\ res.p <= TerminatorOf(tok))
    /\ (tok.fn = "creg" /\ last.fn = "creg") =>
           (~fault /\ CregCursor(MemOf(tok), tok.skip_first) <= TerminatorOf(tok))

====
